---------------------------- MODULE Spec2Model ----------------------------
(***************************************************************************)
(* Request handlers of the video-sharing backend:                          *)
(*   src/src/controllers/playlist.controller.js                            *)
(*   src/src/controllers/video.controller.js                               *)
(*                                                                         *)
(* Object ids are naturals.  0 stands for every string that is not a       *)
(* well-formed ObjectId; the positive numbers are well-formed ids.  A      *)
(* collection hands out the fresh ids 1, 2, ... on create and never        *)
(* reuses one.  Media Store URLs are naturals handed out the same way.     *)
(*                                                                         *)
(* A handler is a linear sequence of awaited calls, each of which can      *)
(* fail.  Handled alone, a request is one action: the calls it makes, in   *)
(* the order of the code, up to its response or its first throw.           *)
(***************************************************************************)
EXTENDS Naturals, Sequences, FiniteSets, TLC

\* ------------------------------------------------------------- bounds
\* Playlists ever created.
MaxPlaylists == 1
\* Videos ever published.
MaxVideos == 1
\* Assets ever uploaded to the Media Store.
MaxAssets == 3
\* Playlist requests in flight at once (interleaved runs).
NumRequests == 2

\* ------------------------------------------------------------- inputs
\* The authenticated callers (req.user._id).
Users == {1, 2}
\* Playlist name / description of a request body; "" is absent or empty.
Texts == {"", "a"}
\* Video title / description of a request body; " " is blank once trimmed.
VideoTexts == {" ", "a"}
\* ?query= of getAllVideos; "" is the default.
QueryInputs == {"", "A", "b"}
\* ?page= and ?limit= of getAllVideos.
PageInputs == 1..2
\* :playlistId of a route (0 malformed, MaxPlaylists + 1 never created).
PlaylistIdInputs == 0..(MaxPlaylists + 1)
\* :videoId of a playlist route (0 malformed); the handlers never look the
\* video up, any well-formed id is accepted.
VideoRefInputs == 0..2
\* :videoId of a video route (0 malformed, MaxVideos + 1 never created).
VideoIdInputs == 0..(MaxVideos + 1)
\* :userId of getUserPlaylists (0 malformed, 3 owns nothing).
UserIdInputs == 0..3
\* The asset kinds uploadOnCloudinary / deleteFromCloudinary are called with.
Kinds == {"video", "img"}

VARIABLES
    playlists,   \* the Playlist collection: _id -> document
    nextPid,     \* the next _id the Playlist collection hands out
    videos,      \* the Video collection: _id -> document
    nextVid,     \* the next _id the Video collection hands out
    media,       \* the URLs the Media Store holds an asset for
    nextUrl,     \* the next URL the Media Store hands out
    inflight,    \* playlist requests that have fetched and not yet saved
    prev,        \* the collections and the Media Store before the last request
    last,        \* the last completed request: its inputs and its outcome
    history      \* what the responses so far reported created and deleted

vars == <<playlists, nextPid, videos, nextVid, media, nextUrl, inflight, prev, last,
          history>>

\* ------------------------------------------------------------- helpers
\* mongoose.isValidObjectId.
isValidObjectId(id) == id # 0

\* includes() of the playlist's video array.
includes(arr, x) == \E i \in 1..Len(arr) : arr[i] = x

RECURSIVE pull(_, _)
\* pull() of the playlist's video array: every element equal to x is removed,
\* the order of the others is kept.
pull(arr, x) ==
    IF arr = <<>> THEN <<>>
    ELSE IF Head(arr) = x THEN pull(Tail(arr), x)
    ELSE <<Head(arr)>> \o pull(Tail(arr), x)

\* String.prototype.trim on the texts of VideoTexts.
trim(s) == IF s = " " THEN "" ELSE s

\* new ApiError(statusCode, message): the error kind stands for the message.
ApiError(statusCode, kind) == [kind |-> kind, status |-> statusCode]

\* No error thrown; status is the one of the 200 response.
Ok == [kind |-> "none", status |-> 200]

\* An error thrown by the runtime or by Mongoose, not built by the handler.
Thrown(kind) == [kind |-> kind, status |-> 0]

\* The changes a fetched document has tracked when save() is called.
NoDelta == [op |-> "none", videoId |-> 0, name |-> "", description |-> ""]

\* A handler's run up to its save(): the error it threw, if any, and the
\* changes made to the in-memory document.
Outcome(e, d) == [err |-> e, delta |-> d]

\* The record of a request; the fields an operation does not have keep these
\* values.
NoRequest ==
    [op |-> "none", caller |-> 0, id |-> 0, videoId |-> 0, name |-> "",
     description |-> "", files |-> {}, uploadable |-> {}, deletable |-> {},
     err |-> "none", status |-> 0, ret |-> {}, total |-> 0, flag |-> FALSE]

Request(op, caller, id, e) ==
    [NoRequest EXCEPT !.op = op, !.caller = caller, !.id = id,
                      !.err = e.kind, !.status = e.status]

Snapshot == [playlists |-> playlists, videos |-> videos, media |-> media]

\* ------------------------------------------------ Playlist controller
\* Playlist.create({name, description, owner}): the stored document; the
\* video array starts empty.
NewPlaylist(name, description, caller) ==
    [name |-> name, description |-> description, owner |-> caller, video |-> <<>>]

\* createPlaylist up to the create() call.
createPlaylistCheck(name, description) ==
    IF name = "" /\ description = "" THEN ApiError(400, "ValidationError") ELSE Ok

\* Playlist.find({owner: userId}) of getUserPlaylists.
findByOwner(db, userId) == {p \in DOMAIN db : db[p].owner = userId}

\* getUserPlaylists: its error and the playlists it returns.
getUserPlaylistsResult(db, userId) ==
    IF ~isValidObjectId(userId)
      THEN [err |-> ApiError(400, "ValidationError"), ret |-> {}]
      ELSE [err |-> Ok, ret |-> findByOwner(db, userId)]

\* getPlaylistById: its error and the playlist it returns.
getPlaylistByIdResult(db, playlistId) ==
    IF ~isValidObjectId(playlistId)
      THEN [err |-> ApiError(400, "ValidationError"), ret |-> {}]
    ELSE IF playlistId \notin DOMAIN db
      THEN [err |-> ApiError(400, "NotFoundError"), ret |-> {}]
    ELSE [err |-> Ok, ret |-> {playlistId}]

\* addVideoToPlaylistCheck with the includes() test of line 65 left out.
addVideoToPlaylistCheckNoConflict(db, playlistId, videoId, caller) ==
    IF ~isValidObjectId(playlistId) /\ ~isValidObjectId(videoId)
      THEN Outcome(ApiError(400, "ValidationError"), NoDelta)
    ELSE IF ~isValidObjectId(playlistId)
      THEN Outcome(Thrown("CastError"), NoDelta)
    ELSE IF playlistId \notin DOMAIN db
      THEN Outcome(ApiError(400, "NotFoundError"), NoDelta)
    ELSE IF db[playlistId].owner # caller
      THEN Outcome(ApiError(400, "AuthorizationError"), NoDelta)
    ELSE IF ~isValidObjectId(videoId)
      THEN Outcome(Thrown("CastError"), NoDelta)
    ELSE Outcome(Ok, [NoDelta EXCEPT !.op = "$push", !.videoId = videoId])

\* addVideoToPlaylist from its validation to findPlaylist.video.push(videoId).
\* findById and push cast their argument to an ObjectId: a malformed id that
\* passed the && of the validation makes them throw a CastError.
addVideoToPlaylistCheck(db, playlistId, videoId, caller) ==
    IF ~isValidObjectId(playlistId) /\ ~isValidObjectId(videoId)
      THEN Outcome(ApiError(400, "ValidationError"), NoDelta)
    ELSE IF ~isValidObjectId(playlistId)
      THEN Outcome(Thrown("CastError"), NoDelta)
    ELSE IF playlistId \notin DOMAIN db
      THEN Outcome(ApiError(400, "NotFoundError"), NoDelta)
    ELSE IF db[playlistId].owner # caller
      THEN Outcome(ApiError(400, "AuthorizationError"), NoDelta)
    ELSE IF includes(db[playlistId].video, videoId)
      THEN Outcome(ApiError(400, "ConflictError"), NoDelta)
    ELSE IF ~isValidObjectId(videoId)
      THEN Outcome(Thrown("CastError"), NoDelta)
    ELSE Outcome(Ok, [NoDelta EXCEPT !.op = "$push", !.videoId = videoId])

\* removeVideoFromPlaylistCheck pulling playlistId where line 94 pulls videoId.
removeVideoFromPlaylistCheckWrongId(db, playlistId, videoId, caller) ==
    IF ~isValidObjectId(playlistId) /\ ~isValidObjectId(videoId)
      THEN Outcome(ApiError(400, "ValidationError"), NoDelta)
    ELSE IF ~isValidObjectId(playlistId) \/ ~isValidObjectId(videoId)
      THEN Outcome(Thrown("CastError"), NoDelta)
    ELSE IF ~(playlistId \in DOMAIN db /\ includes(db[playlistId].video, videoId))
      THEN Outcome(ApiError(400, "NotFoundError"), NoDelta)
    ELSE IF db[playlistId].owner # caller
      THEN Outcome(ApiError(400, "AuthorizationError"), NoDelta)
    ELSE Outcome(Ok, [NoDelta EXCEPT !.op = "$pull", !.videoId = playlistId])

\* removeVideoFromPlaylist from its validation to findVideo.video.pull(videoId).
\* findOne casts both ids of its filter.
removeVideoFromPlaylistCheck(db, playlistId, videoId, caller) ==
    IF ~isValidObjectId(playlistId) /\ ~isValidObjectId(videoId)
      THEN Outcome(ApiError(400, "ValidationError"), NoDelta)
    ELSE IF ~isValidObjectId(playlistId) \/ ~isValidObjectId(videoId)
      THEN Outcome(Thrown("CastError"), NoDelta)
    ELSE IF ~(playlistId \in DOMAIN db /\ includes(db[playlistId].video, videoId))
      THEN Outcome(ApiError(400, "NotFoundError"), NoDelta)
    ELSE IF db[playlistId].owner # caller
      THEN Outcome(ApiError(400, "AuthorizationError"), NoDelta)
    ELSE Outcome(Ok, [NoDelta EXCEPT !.op = "$pull", !.videoId = videoId])

\* deletePlaylistCheck with the ownership test of line 113 left out.
deletePlaylistCheckNoOwner(db, playlistId, caller) ==
    IF ~isValidObjectId(playlistId) THEN ApiError(400, "ValidationError")
    ELSE IF playlistId \notin DOMAIN db THEN ApiError(500, "NotFoundError")
    ELSE Ok

\* deletePlaylist up to the findByIdAndDelete call.
deletePlaylistCheck(db, playlistId, caller) ==
    IF ~isValidObjectId(playlistId) THEN ApiError(400, "ValidationError")
    ELSE IF playlistId \notin DOMAIN db THEN ApiError(500, "NotFoundError")
    ELSE IF db[playlistId].owner # caller THEN ApiError(400, "AuthorizationError")
    ELSE Ok

\* updatePlaylist from its validation to the two assignments.
updatePlaylistCheck(db, playlistId, name, description, caller) ==
    IF ~isValidObjectId(playlistId)
      THEN Outcome(ApiError(400, "ValidationError"), NoDelta)
    ELSE IF name = "" /\ description = ""
      THEN Outcome(ApiError(400, "ValidationError"), NoDelta)
    ELSE IF playlistId \notin DOMAIN db
      THEN Outcome(ApiError(500, "NotFoundError"), NoDelta)
    ELSE IF db[playlistId].owner # caller
      THEN Outcome(ApiError(400, "AuthorizationError"), NoDelta)
    ELSE Outcome(Ok, [NoDelta EXCEPT !.op = "$set", !.name = name,
                                     !.description = description])

\* document.save(): Mongoose sends the changes tracked on the document, not the
\* document: a push as $push, a pull as $pull, assigned paths as $set.  The
\* store applies them to the document as it is stored at that moment.
save(db, playlistId, delta) ==
    IF playlistId \notin DOMAIN db THEN db
    ELSE CASE delta.op = "$push" ->
                [db EXCEPT ![playlistId].video = Append(@, delta.videoId)]
           [] delta.op = "$pull" ->
                [db EXCEPT ![playlistId].video = pull(@, delta.videoId)]
           [] delta.op = "$set" ->
                [db EXCEPT ![playlistId].name = delta.name,
                           ![playlistId].description = delta.description]
           [] OTHER -> db

\* Playlist.findByIdAndDelete(playlistId).
findByIdAndDelete(db, playlistId) ==
    [p \in DOMAIN db \ {playlistId} |-> db[p]]

\* The 200 responses of createPlaylist and deletePlaylist, as a client sees
\* them: the playlist ids reported created, each with the caller it was created
\* for, and the playlist ids reported deleted.
Recorded(request) ==
    IF request.op = "createPlaylist" /\ request.err = "none"
      THEN [history EXCEPT !.created = @ \cup {<<request.id, request.caller>>}]
    ELSE IF request.op = "deletePlaylist" /\ request.err = "none"
      THEN [history EXCEPT !.deleted = @ \cup {request.id}]
    ELSE history

\* The response of a playlist request: the collection as the request leaves it.
RespondPlaylist(db, request) ==
    /\ playlists' = db
    /\ prev' = Snapshot
    /\ last' = request
    /\ history' = Recorded(request)
    /\ UNCHANGED <<videos, nextVid, media, nextUrl>>

createPlaylist ==
    \E name \in Texts, description \in Texts, caller \in Users :
        LET e == createPlaylistCheck(name, description)
            r == [Request("createPlaylist", caller, 0, e)
                    EXCEPT !.name = name, !.description = description]
        IN  IF e.kind # "none"
              THEN /\ RespondPlaylist(playlists, r)
                   /\ UNCHANGED <<nextPid, inflight>>
              ELSE /\ nextPid <= MaxPlaylists
                   /\ RespondPlaylist(
                          playlists @@ (nextPid :> NewPlaylist(name, description, caller)),
                          [r EXCEPT !.id = nextPid, !.ret = {nextPid}])
                   /\ nextPid' = nextPid + 1
                   /\ UNCHANGED inflight

getUserPlaylists ==
    \E userId \in UserIdInputs :
        LET g == getUserPlaylistsResult(playlists, userId) IN
        /\ RespondPlaylist(playlists,
               [Request("getUserPlaylists", 0, userId, g.err) EXCEPT !.ret = g.ret])
        /\ UNCHANGED <<nextPid, inflight>>

getPlaylistById ==
    \E playlistId \in PlaylistIdInputs :
        LET g == getPlaylistByIdResult(playlists, playlistId) IN
        /\ RespondPlaylist(playlists,
               [Request("getPlaylistById", 0, playlistId, g.err) EXCEPT !.ret = g.ret])
        /\ UNCHANGED <<nextPid, inflight>>

addVideoToPlaylist ==
    \E playlistId \in PlaylistIdInputs, videoId \in VideoRefInputs, caller \in Users :
        LET o == addVideoToPlaylistCheck(playlists, playlistId, videoId, caller) IN
        /\ RespondPlaylist(
               IF o.err.kind = "none" THEN save(playlists, playlistId, o.delta)
                                      ELSE playlists,
               [Request("addVideoToPlaylist", caller, playlistId, o.err)
                  EXCEPT !.videoId = videoId])
        /\ UNCHANGED <<nextPid, inflight>>

removeVideoFromPlaylist ==
    \E playlistId \in PlaylistIdInputs, videoId \in VideoRefInputs, caller \in Users :
        LET o == removeVideoFromPlaylistCheck(playlists, playlistId, videoId, caller) IN
        /\ RespondPlaylist(
               IF o.err.kind = "none" THEN save(playlists, playlistId, o.delta)
                                      ELSE playlists,
               [Request("removeVideoFromPlaylist", caller, playlistId, o.err)
                  EXCEPT !.videoId = videoId])
        /\ UNCHANGED <<nextPid, inflight>>

deletePlaylist ==
    \E playlistId \in PlaylistIdInputs, caller \in Users :
        LET e == deletePlaylistCheck(playlists, playlistId, caller) IN
        /\ RespondPlaylist(
               IF e.kind = "none" THEN findByIdAndDelete(playlists, playlistId)
                                  ELSE playlists,
               Request("deletePlaylist", caller, playlistId, e))
        /\ UNCHANGED <<nextPid, inflight>>

updatePlaylist ==
    \E playlistId \in PlaylistIdInputs, name \in Texts, description \in Texts,
       caller \in Users :
        LET o == updatePlaylistCheck(playlists, playlistId, name, description, caller) IN
        /\ RespondPlaylist(
               IF o.err.kind = "none" THEN save(playlists, playlistId, o.delta)
                                      ELSE playlists,
               [Request("updatePlaylist", caller, playlistId, o.err)
                  EXCEPT !.name = name, !.description = description])
        /\ UNCHANGED <<nextPid, inflight>>

NextPlaylist ==
    \/ createPlaylist
    \/ getUserPlaylists
    \/ getPlaylistById
    \/ addVideoToPlaylist
    \/ removeVideoFromPlaylist
    \/ deletePlaylist
    \/ updatePlaylist


\* --------------------------------------------------- Video controller
\* The names bound in the scope of video.controller.js: its imports.
ModuleScope ==
    {"mongoose", "isValidObjectId", "Video", "User", "ApiError", "ApiResponse",
     "asyncHandler", "uploadOnCloudinary"}

\* Evaluating an identifier that no declaration binds throws a ReferenceError.
Bound(name) == name \in ModuleScope

\* throw new <ctor>(statusCode, message).
Throw(ctor, statusCode, kind) ==
    IF Bound(ctor) THEN ApiError(statusCode, kind) ELSE Thrown("ReferenceError")

\* The catch-all of publishAVideo, getVideoById and updateVideo: whatever was
\* thrown, the response carries the handler's one status.
Caught(e, statusCode) ==
    IF e.kind = "none" THEN e ELSE [e EXCEPT !.status = statusCode]

\* Video.create({...}) of publishAVideo: the stored document.
NewVideo(title, description, videoFile, thumbnail, caller) ==
    [title |-> title, description |-> description, videoFile |-> videoFile,
     thumbnail |-> thumbnail, Owner |-> caller, isPUblished |-> TRUE]

\* uploadOnCloudinary(path, kind): the stored asset's URL, or null (here 0) when
\* the Media Store does not take the upload.
uploadOnCloudinary(kind, uploadable, url) ==
    IF kind \in uploadable THEN url ELSE 0

\* uploadFailed with the thumbnail check of line 110 left out.
uploadFailedVideoOnly(videoOnCloudnary, thumbnailOnCloudnary) ==
    videoOnCloudnary = 0

\* The two checks of publishAVideo after its uploads.
uploadFailed(videoOnCloudnary, thumbnailOnCloudnary) ==
    videoOnCloudnary = 0 \/ thumbnailOnCloudnary = 0

\* $regex with $options "i" on the one-letter texts: the lower-cased query is
\* empty or is the text.
toLower(s) == IF s = "A" THEN "a" ELSE s

regexMatch(text, query) == toLower(query) = "" \/ toLower(query) = toLower(text)

RECURSIVE sortAscending(_)
\* $sort by the default createdAt, ascending: the order of creation.
sortAscending(S) ==
    IF S = {} THEN <<>>
    ELSE LET m == CHOOSE x \in S : \A y \in S : x <= y
         IN  <<m>> \o sortAscending(S \ {m})

\* The $match stage of getAllVideos; userId is <<>> (no filter) or <<id>>.
matchVideos(db, query, userId) ==
    {v \in DOMAIN db :
        /\ regexMatch(db[v].title, query) \/ regexMatch(db[v].description, query)
        /\ userId # <<>> => db[v].Owner = userId[1]}

\* aggregatePaginate: the docs of the 1-based page.
paginate(docs, page, limit) ==
    LET from == (page - 1) * limit + 1
        to == IF page * limit < Len(docs) THEN page * limit ELSE Len(docs)
    IN  {docs[i] : i \in from..to}

\* The response of a video request.
RespondVideo(db, store, request) ==
    /\ videos' = db
    /\ media' = store
    /\ prev' = Snapshot
    /\ last' = request
    /\ UNCHANGED <<playlists, nextPid, inflight, history>>

getAllVideos ==
    \E page \in PageInputs, limit \in PageInputs, query \in QueryInputs,
       userId \in {<<>>} \cup {<<u>> : u \in UserIdInputs} :
        LET malformed == userId # <<>> /\ ~isValidObjectId(userId[1])
            matched == IF malformed THEN {} ELSE matchVideos(videos, query, userId)
            docs == paginate(sortAscending(matched), page, limit)
            e == IF malformed THEN Thrown("TypeError")
                 ELSE IF docs = {} THEN [kind |-> "none", status |-> 404]
                 ELSE Ok
        IN  /\ RespondVideo(videos, media,
                   [Request("getAllVideos", 0, IF userId = <<>> THEN 0 ELSE userId[1], e)
                      EXCEPT !.name = query, !.ret = docs,
                             !.total = Cardinality(matched)])
            /\ UNCHANGED <<nextVid, nextUrl>>

publishAVideo ==
    \E title \in VideoTexts, description \in VideoTexts, files \in SUBSET Kinds,
       uploadable \in SUBSET Kinds, caller \in Users :
        LET r == [Request("publishAVideo", caller, 0, Ok)
                    EXCEPT !.name = title, !.description = description,
                           !.files = files, !.uploadable = uploadable]
            early == IF trim(title) = "" \/ trim(description) = ""
                       THEN ApiError(400, "ValidationError")
                     ELSE IF "video" \notin files THEN ApiError(400, "ValidationError")
                     ELSE IF "img" \notin files THEN ApiError(400, "ValidationError")
                     ELSE Ok
            videoOnCloudnary == uploadOnCloudinary("video", uploadable, nextUrl)
            thumbUrl == IF videoOnCloudnary = 0 THEN nextUrl ELSE nextUrl + 1
            thumbnailOnCloudnary == uploadOnCloudinary("img", uploadable, thumbUrl)
            stored == media \cup ({videoOnCloudnary, thumbnailOnCloudnary} \ {0})
        IN  IF early.kind # "none"
              THEN /\ RespondVideo(videos, media,
                          [r EXCEPT !.err = early.kind, !.status = 501])
                   /\ UNCHANGED <<nextVid, nextUrl>>
            ELSE /\ nextUrl + 1 <= MaxAssets
                 /\ nextUrl' = nextUrl + Cardinality(stored \ media)
                 /\ IF uploadFailed(videoOnCloudnary, thumbnailOnCloudnary)
                      THEN /\ RespondVideo(videos, stored,
                                  [r EXCEPT !.err = "UploadError", !.status = 501])
                           /\ UNCHANGED nextVid
                      ELSE /\ nextVid <= MaxVideos
                           /\ RespondVideo(
                                  videos @@ (nextVid :> NewVideo(title, description,
                                      videoOnCloudnary, thumbnailOnCloudnary, caller)),
                                  stored,
                                  [r EXCEPT !.id = nextVid, !.ret = {nextVid}])
                           /\ nextVid' = nextVid + 1

getVideoById ==
    \E videoId \in VideoIdInputs :
        LET e == IF ~isValidObjectId(videoId) THEN ApiError(400, "ValidationError")
                 ELSE IF videoId \notin DOMAIN videos THEN ApiError(400, "NotFoundError")
                 ELSE Ok
        IN  /\ RespondVideo(videos, media,
                   [Request("getVideoById", 0, videoId, Caught(e, 501))
                      EXCEPT !.ret = IF e.kind = "none" THEN {videoId} ELSE {}])
            /\ UNCHANGED <<nextVid, nextUrl>>


\* deleteFromCloudinary(url, kind): whether the Media Store deleted the asset.
deleteFromCloudinary(kind, deletable) == kind \in deletable

\* updateVideo up to the thumbnail upload: validation, lookup, ownership and
\* the attached file.
updateVideoCheck(db, videoId, title, description, files, caller) ==
    IF ~isValidObjectId(videoId) THEN ApiError(400, "ValidationError")
    ELSE IF trim(title) = "" \/ trim(description) = ""
      THEN ApiError(400, "ValidationError")
    ELSE IF videoId \notin DOMAIN db THEN ApiError(400, "NotFoundError")
    ELSE IF db[videoId].Owner # caller THEN ApiError(400, "AuthorizationError")
    ELSE IF "img" \notin files THEN ApiError(400, "ValidationError")
    ELSE Ok

\* updateVideoAssets with the assignments and video.save() of lines 192-195
\* moved before the deleteFromCloudinary call of line 188.
updateVideoAssetsSaveFirst(video, title, description, uploadable, deletable, url) ==
    LET thumbnailOnCloudnary == uploadOnCloudinary("img", uploadable, url)
        none == [err |-> Ok, video |-> video, added |-> {}, removed |-> {}]
        saved == [none EXCEPT !.video = [video EXCEPT !.title = title,
                                                      !.description = description,
                                                      !.thumbnail = thumbnailOnCloudnary],
                              !.added = {thumbnailOnCloudnary}]
    IN  IF thumbnailOnCloudnary = 0
          THEN [none EXCEPT !.err = ApiError(400, "UploadError")]
        ELSE IF ~Bound("deleteFromCloudinary")
          THEN [saved EXCEPT !.err = Thrown("ReferenceError")]
        ELSE IF ~deleteFromCloudinary("img", deletable)
          THEN [saved EXCEPT !.err = ApiError(400, "InternalError")]
        ELSE [saved EXCEPT !.removed = {video.thumbnail}]

\* updateVideo from the thumbnail upload to video.save(): the error thrown, the
\* document as stored afterwards, and the URLs added to and removed from the
\* Media Store.
updateVideoAssets(video, title, description, uploadable, deletable, url) ==
    LET thumbnailOnCloudnary == uploadOnCloudinary("img", uploadable, url)
        none == [err |-> Ok, video |-> video, added |-> {}, removed |-> {}]
    IN  IF thumbnailOnCloudnary = 0
          THEN [none EXCEPT !.err = ApiError(400, "UploadError")]
        ELSE IF ~Bound("deleteFromCloudinary")
          THEN [none EXCEPT !.err = Thrown("ReferenceError"),
                            !.added = {thumbnailOnCloudnary}]
        ELSE IF ~deleteFromCloudinary("img", deletable)
          THEN [none EXCEPT !.err = ApiError(400, "InternalError"),
                            !.added = {thumbnailOnCloudnary}]
        ELSE [none EXCEPT !.video = [video EXCEPT !.title = title,
                                                  !.description = description,
                                                  !.thumbnail = thumbnailOnCloudnary],
                          !.added = {thumbnailOnCloudnary},
                          !.removed = {video.thumbnail}]

updateVideo ==
    \E videoId \in VideoIdInputs, title \in VideoTexts, description \in VideoTexts,
       files \in SUBSET {"img"}, uploadable \in SUBSET {"img"},
       deletable \in SUBSET {"img"}, caller \in Users :
        LET r == [Request("updateVideo", caller, videoId, Ok)
                    EXCEPT !.name = title, !.description = description,
                           !.files = files, !.uploadable = uploadable,
                           !.deletable = deletable]
            e == updateVideoCheck(videos, videoId, title, description, files, caller)
        IN  IF e.kind # "none"
              THEN /\ RespondVideo(videos, media,
                          [r EXCEPT !.err = e.kind, !.status = 500])
                   /\ UNCHANGED <<nextVid, nextUrl>>
            ELSE LET u == updateVideoAssets(videos[videoId], title, description,
                                            uploadable, deletable, nextUrl)
                     c == Caught(u.err, 500)
                 IN  /\ nextUrl <= MaxAssets
                     /\ nextUrl' = nextUrl + Cardinality(u.added)
                     /\ RespondVideo([videos EXCEPT ![videoId] = u.video],
                                     (media \cup u.added) \ u.removed,
                                     [r EXCEPT !.err = c.kind, !.status = c.status,
                                               !.ret = IF c.kind = "none"
                                                         THEN {videoId} ELSE {}])
                     /\ UNCHANGED nextVid

\* deleteVideo up to the asset deletions.
deleteVideoCheck(db, videoId, caller) ==
    IF ~isValidObjectId(videoId) THEN ApiError(400, "ValidationError")
    ELSE IF videoId \notin DOMAIN db THEN ApiError(400, "NotFoundError")
    ELSE IF db[videoId].Owner # caller THEN ApiError(403, "AuthorizationError")
    ELSE Ok

\* deleteVideo from the asset deletions to video.remove(): the error thrown,
\* the URLs removed from the Media Store and whether the record is removed.
deleteVideoAssets(video, deletable) ==
    LET videoFile == deleteFromCloudinary("video", deletable)
        thumbnail == deleteFromCloudinary("img", deletable)
        removed == (IF videoFile THEN {video.videoFile} ELSE {})
                     \cup (IF thumbnail THEN {video.thumbnail} ELSE {})
    IN  IF ~Bound("deleteFromCloudinary")
          THEN [err |-> Thrown("ReferenceError"), removed |-> {}, remove |-> FALSE]
        ELSE IF ~videoFile /\ ~thumbnail
          THEN [err |-> ApiError(400, "InternalError"), removed |-> removed,
                remove |-> FALSE]
        ELSE [err |-> Ok, removed |-> removed, remove |-> TRUE]

deleteVideo ==
    \E videoId \in VideoIdInputs, deletable \in SUBSET Kinds, caller \in Users :
        LET r == [Request("deleteVideo", caller, videoId, Ok)
                    EXCEPT !.deletable = deletable]
            e == deleteVideoCheck(videos, videoId, caller)
        IN  /\ IF e.kind # "none"
                 THEN RespondVideo(videos, media,
                          [r EXCEPT !.err = e.kind, !.status = e.status])
                 ELSE LET d == deleteVideoAssets(videos[videoId], deletable)
                      IN  RespondVideo(
                              IF d.remove
                                THEN [v \in DOMAIN videos \ {videoId} |-> videos[v]]
                                ELSE videos,
                              media \ d.removed,
                              [r EXCEPT !.err = d.err.kind, !.status = d.err.status])
            /\ UNCHANGED <<nextVid, nextUrl>>

\* togglePublishStatus up to the flip: validation and the lookup
\* Video.findOne({_id: videoId, Owner: req.user._id}).
togglePublishStatusCheck(db, videoId, caller) ==
    IF ~isValidObjectId(videoId) THEN Throw("Apierror", 400, "ValidationError")
    ELSE IF ~(videoId \in DOMAIN db /\ db[videoId].Owner = caller)
      THEN Throw("Apierror", 400, "NotFoundError")
    ELSE Ok

\* toggle assigning true where line 249 assigns the negation.
toggleSetsTrue(isPUblished) == TRUE

\* toggleisPUblished.isPUblished = !toggleisPUblished.isPUblished
toggle(isPUblished) == ~isPUblished

togglePublishStatus ==
    \E videoId \in VideoIdInputs, caller \in Users :
        LET e == togglePublishStatusCheck(videos, videoId, caller)
            r == Request("togglePublishStatus", caller, videoId, e)
        IN  /\ IF e.kind # "none"
                 THEN RespondVideo(videos, media, r)
                 ELSE RespondVideo(
                          [videos EXCEPT ![videoId].isPUblished = toggle(@)],
                          media,
                          [r EXCEPT !.flag = toggle(videos[videoId].isPUblished)])
            /\ UNCHANGED <<nextVid, nextUrl>>

NextVideo ==
    \/ getAllVideos
    \/ publishAVideo
    \/ getVideoById
    \/ updateVideo
    \/ deleteVideo
    \/ togglePublishStatus

\* ------------------------------------- interleaved playlist requests
\* A request between its fetch and its save: what it was asked and the changes
\* its in-memory document has tracked.
Idle == [req |-> NoRequest, delta |-> NoDelta]

\* The handler's steps up to its save() ran on the collection as fetched: an
\* error is the response, otherwise the request waits for its save().
Fetched(r, o, request) ==
    /\ inflight[r] = Idle
    /\ IF o.err.kind # "none"
         THEN /\ last' = [request EXCEPT !.err = o.err.kind, !.status = o.err.status]
              /\ prev' = Snapshot
              /\ UNCHANGED inflight
         ELSE /\ inflight' = [inflight EXCEPT ![r] = [req |-> request, delta |-> o.delta]]
              /\ UNCHANGED <<prev, last>>
    /\ UNCHANGED <<playlists, nextPid, videos, nextVid, media, nextUrl, history>>

addVideoToPlaylistFetch(r) ==
    \E playlistId \in PlaylistIdInputs, videoId \in VideoRefInputs, caller \in Users :
        Fetched(r, addVideoToPlaylistCheck(playlists, playlistId, videoId, caller),
                [Request("addVideoToPlaylist", caller, playlistId, Ok)
                   EXCEPT !.videoId = videoId])

removeVideoFromPlaylistFetch(r) ==
    \E playlistId \in PlaylistIdInputs, videoId \in VideoRefInputs, caller \in Users :
        Fetched(r, removeVideoFromPlaylistCheck(playlists, playlistId, videoId, caller),
                [Request("removeVideoFromPlaylist", caller, playlistId, Ok)
                   EXCEPT !.videoId = videoId])

updatePlaylistFetch(r) ==
    \E playlistId \in PlaylistIdInputs, name \in Texts, description \in Texts,
       caller \in Users :
        Fetched(r, updatePlaylistCheck(playlists, playlistId, name, description, caller),
                [Request("updatePlaylist", caller, playlistId, Ok)
                   EXCEPT !.name = name, !.description = description])

\* await document.save() and the 200 response of a request in flight.
saveStep(r) ==
    /\ inflight[r] # Idle
    /\ playlists' = save(playlists, inflight[r].req.id, inflight[r].delta)
    /\ prev' = Snapshot
    /\ last' = inflight[r].req
    /\ inflight' = [inflight EXCEPT ![r] = Idle]
    /\ UNCHANGED <<nextPid, videos, nextVid, media, nextUrl, history>>

NextRace ==
    \/ createPlaylist
    \/ \E r \in 1..NumRequests : addVideoToPlaylistFetch(r)
    \/ \E r \in 1..NumRequests : removeVideoFromPlaylistFetch(r)
    \/ \E r \in 1..NumRequests : updatePlaylistFetch(r)
    \/ \E r \in 1..NumRequests : saveStep(r)

\* ------------------------------------------------------ specifications
EmptyDb == [p \in {} |-> NoDelta]

Init ==
    /\ playlists = EmptyDb
    /\ nextPid = 1
    /\ videos = EmptyDb
    /\ nextVid = 1
    /\ media = {}
    /\ nextUrl = 1
    /\ inflight = [r \in 1..NumRequests |-> Idle]
    /\ prev = [playlists |-> EmptyDb, videos |-> EmptyDb, media |-> {}]
    /\ last = NoRequest
    /\ history = [created |-> {}, deleted |-> {}]

\* The playlist controller, one request at a time.
SpecPlaylist == Init /\ [][NextPlaylist]_vars

\* The video controller, one request at a time.
SpecVideo == Init /\ [][NextVideo]_vars


\* The playlist controller with the fetch and the save of add, remove and
\* update requests interleaved.
SpecRace == Init /\ [][NextRace]_vars

\* ------------------------------------------------- playlist properties
\* How many times x occurs in arr.
count(arr, x) == Cardinality({i \in 1..Len(arr) : arr[i] = x})

\* No video id occurs twice in any stored playlist.
NoDuplicateVideo ==
    \A p \in DOMAIN playlists :
        \A i, j \in 1..Len(playlists[p].video) :
            i # j => playlists[p].video[i] # playlists[p].video[j]

\* The last request named a playlist that existed when it started, and its
\* caller owned it.
ByPlaylistOwner ==
    /\ last.id \in DOMAIN prev.playlists
    /\ prev.playlists[last.id].owner = last.caller

\* The last request named a playlist that existed when it started, and its
\* caller did not own it.
ByPlaylistNonOwner ==
    /\ last.id \in DOMAIN prev.playlists
    /\ prev.playlists[last.id].owner # last.caller

C3_RemoveAfterAddRestores ==
    [][ ( /\ last.op = "addVideoToPlaylist"
          /\ last.err = "none"
          /\ last'.op = "removeVideoFromPlaylist"
          /\ last'.id = last.id
          /\ last'.videoId = last.videoId
          /\ last'.caller = last.caller )
        => /\ last'.err = "none"
           /\ playlists'[last.id].video = prev.playlists[last.id].video ]_vars

\* V was removed from a playlist that held another video before V, V being
\* the element an add had appended last.
C3_Witness ==
    /\ last.op = "removeVideoFromPlaylist"
    /\ last.err = "none"
    /\ Len(prev.playlists[last.id].video) = 2
    /\ prev.playlists[last.id].video[2] = last.videoId
    /\ Len(playlists[last.id].video) = 1

\* C8: addVideoToPlaylist with a malformed playlistId or a malformed videoId
\* fails with ValidationError and leaves the playlists as they were.
C8_MalformedIdIsValidationError ==
    ( /\ last.op = "addVideoToPlaylist"
      /\ ~isValidObjectId(last.id) \/ ~isValidObjectId(last.videoId) )
    => /\ last.err = "ValidationError"
       /\ playlists = prev.playlists

\* The playlists the responses so far report as existing.
Reported == {c[1] : c \in history.created} \ history.deleted

\* The playlists the responses so far report as existing and created for u.
ReportedOf(u) == {c[1] : c \in {d \in history.created : d[2] = u}} \ history.deleted

\* C9: getPlaylistById(P) succeeds exactly when a createPlaylist response
\* reported P and no deletePlaylist response has since; otherwise it fails with
\* NotFoundError.  getUserPlaylists(U) returns exactly the playlists so
\* reported for U.  deletePlaylist(P) by a non-owner fails and P stays.
C9_FetchableIffCreatedAndNotDeleted ==
    /\ (last.op = "getPlaylistById" /\ isValidObjectId(last.id))
       => /\ last.err = "none" <=> last.id \in Reported
          /\ last.id \in Reported => last.ret = {last.id}
          /\ last.id \notin Reported => last.err = "NotFoundError"
    /\ (last.op = "getUserPlaylists" /\ isValidObjectId(last.id))
       => /\ last.err = "none"
          /\ last.ret = ReportedOf(last.id)
    /\ (last.op = "deletePlaylist" /\ ByPlaylistNonOwner)
       => /\ last.err = "AuthorizationError"
          /\ last.id \in DOMAIN playlists
          /\ last.id \in Reported

\* getPlaylistById(P) failed with NotFoundError after P was created and then
\* deleted by its owner.
C9_Witness ==
    /\ last.op = "getPlaylistById"
    /\ last.err = "NotFoundError"
    /\ last.id \in history.deleted

\* ---------------------------------------------------- video properties
\* The last request named a video that existed when it started, and its caller
\* owned it.
ByVideoOwner ==
    /\ last.id \in DOMAIN prev.videos
    /\ prev.videos[last.id].Owner = last.caller

\* The last request named a video that existed when it started, and its caller
\* did not own it.
ByVideoNonOwner ==
    /\ last.id \in DOMAIN prev.videos
    /\ prev.videos[last.id].Owner # last.caller

\* The two media assets of video v as it was before the last request are
\* still in the Media Store.
AssetsKept(v) ==
    {prev.videos[v].videoFile, prev.videos[v].thumbnail} \subseteq media

\* C2: a mutating operation by a caller who does not own the entity fails with
\* AuthorizationError (togglePublishStatus: with NotFoundError) and leaves the
\* stored entity and its media assets unchanged.  The request is otherwise
\* well formed: the ids are well-formed, removeVideoFromPlaylist names a
\* member, updatePlaylist and updateVideo carry their texts.
C2_NonOwnerIsRefused ==
    /\ ( /\ last.op \in {"addVideoToPlaylist", "removeVideoFromPlaylist",
                         "updatePlaylist", "deletePlaylist"}
         /\ ByPlaylistNonOwner
         /\ last.op = "addVideoToPlaylist" => isValidObjectId(last.videoId)
         /\ last.op = "removeVideoFromPlaylist"
              => includes(prev.playlists[last.id].video, last.videoId)
         /\ last.op = "updatePlaylist" => last.name # "" \/ last.description # "" )
       => /\ last.err = "AuthorizationError"
          /\ playlists = prev.playlists
    /\ ( /\ last.op \in {"updateVideo", "deleteVideo", "togglePublishStatus"}
         /\ ByVideoNonOwner
         /\ last.op = "updateVideo"
              => trim(last.name) # "" /\ trim(last.description) # "" )
       => /\ last.err = IF last.op = "togglePublishStatus"
                          THEN "NotFoundError" ELSE "AuthorizationError"
          /\ videos = prev.videos
          /\ AssetsKept(last.id)

\* What of C2 the code does: a mutating operation by a non-owner fails, with
\* AuthorizationError except in togglePublishStatus, and changes nothing.
NonOwnerChangesNothing ==
    ( /\ last.op \in {"addVideoToPlaylist", "removeVideoFromPlaylist",
                      "updatePlaylist", "deletePlaylist", "updateVideo",
                      "deleteVideo", "togglePublishStatus"}
      /\ ByPlaylistNonOwner \/ ByVideoNonOwner )
    => /\ last.err # "none"
       /\ playlists = prev.playlists
       /\ videos = prev.videos
       /\ media = prev.media

\* C4: the published flag of an existing video changes only in a successful
\* togglePublishStatus by its owner, which flips it and returns the new value.
C4_OnlyToggleChangesPublished ==
    /\ \A v \in DOMAIN videos \cap DOMAIN prev.videos :
          videos[v].isPUblished # prev.videos[v].isPUblished
          => /\ last.op = "togglePublishStatus"
             /\ last.err = "none"
             /\ last.id = v
             /\ last.caller = prev.videos[v].Owner
    /\ (last.op = "togglePublishStatus" /\ ByVideoOwner)
       => /\ last.err = "none"
          /\ last.id \in DOMAIN videos
          /\ videos[last.id].isPUblished = ~prev.videos[last.id].isPUblished
          /\ last.flag = videos[last.id].isPUblished

\* The owner toggled a video back to published: the flag was false, is true
\* and true was returned.
C4_Witness ==
    /\ last.op = "togglePublishStatus"
    /\ last.err = "none"
    /\ ~prev.videos[last.id].isPUblished
    /\ last.flag

\* C5: publishAVideo creates a record exactly when it reports success, and
\* then both uploads succeeded, the two assets are new in the Media Store and
\* the record is published and owned by the caller; with a blank text, a
\* missing file or a failed upload no record is created.
C5_RecordOnlyAfterBothUploads ==
    last.op = "publishAVideo"
    => /\ \A v \in DOMAIN prev.videos : v \in DOMAIN videos /\ videos[v] = prev.videos[v]
       /\ DOMAIN videos # DOMAIN prev.videos <=> last.err = "none"
       /\ last.err = "none"
            => /\ last.uploadable = Kinds
               /\ DOMAIN videos = DOMAIN prev.videos \cup {last.id}
               /\ videos[last.id].isPUblished
               /\ videos[last.id].Owner = last.caller
               /\ videos[last.id].videoFile \in media \ prev.media
               /\ videos[last.id].thumbnail \in media \ prev.media
               /\ videos[last.id].videoFile # videos[last.id].thumbnail
       /\ ( \/ trim(last.name) = "" \/ trim(last.description) = ""
            \/ last.files # Kinds
            \/ last.uploadable # Kinds )
            => videos = prev.videos

\* A video was published.
C5_Witness ==
    /\ last.op = "publishAVideo"
    /\ last.err = "none"
    /\ last.id \in DOMAIN videos
    /\ last.id \notin DOMAIN prev.videos

\* C6: deleteVideo by the owner deletes the record when the Media Store deletes
\* at least one of the two assets, and fails and keeps the record only when it
\* deletes neither.
C6_DeletesUnlessBothDeletionsFail ==
    (last.op = "deleteVideo" /\ ByVideoOwner)
    => /\ last.deletable # {} => last.err = "none" /\ last.id \notin DOMAIN videos
       /\ last.deletable = {} => last.err # "none" /\ last.id \in DOMAIN videos

UploadFailedInUpdate ==
    /\ last.op = "updateVideo"
    /\ ByVideoOwner
    /\ last.err = "UploadError"

\* ----------------------------------------------- interleaved properties
\* C7: with add, remove and update requests on a playlist interleaved between
\* their fetch and their save, no playlist holds a video id twice and every
\* playlist keeps the owner it was created for.
C7_RaceKeepsInvariants ==
    /\ NoDuplicateVideo
    /\ \A c \in history.created :
          c[1] \in DOMAIN playlists => playlists[c[1]].owner = c[2]

\* What of C7 the code does: every playlist keeps its owner.
OwnerNeverChanges ==
    \A c \in history.created :
        c[1] \in DOMAIN playlists => playlists[c[1]].owner = c[2]

=============================================================================
